---------------------------- MODULE Spec2Model ----------------------------
(***************************************************************************)
(* A model of the running-order engine of sketch_running_order             *)
(* (src/running_order.py): the feasibility relation built from the casts,  *)
(* the exhaustive search find_all_orders, the cost model evaluate_cost,    *)
(* the selection find_best_order / find_closest_to_desired, the greedy     *)
(* pairwise-swap optimizer greedy_algo and the overlap matrix; and of the  *)
(* route /optimize (src/app.py, src/handle_request.py,                     *)
(* src/lp_running_order.py) up to the call of the solver.                  *)
(*                                                                         *)
(* Conventions.  Sketch numbers and positions are 0-based as in the code;  *)
(* a SketchOrder is the sequence of its sketch numbers, so position p of   *)
(* the code is index p + 1 of the sequence.  A dict is a function whose    *)
(* DOMAIN is its key set; a lookup of a missing key raises KeyError.       *)
(* A Python set has no specified iteration order: wherever the code        *)
(* iterates over a set, or takes next(iter(s)), the model takes any order, *)
(* or any element.                                                         *)
(***************************************************************************)
EXTENDS Integers, Sequences, FiniteSets

VARIABLES
    pc,                  \* where the modelled call stands
    sketches,            \* optimize_running_order: the input list of Sketch
    try_to_keep_order,   \* optimize_running_order: its flag
    allowed_nexts,       \* find_all_orders: dict sketch -> set of sketches
    anchors,             \* find_all_orders: dict position -> sketch
    desired,             \* the desired order, or None
    stack,               \* find_all_orders: the work list
    discovered,          \* find_all_orders: partial orders already seen
    allowed_full_orders, \* find_all_orders: the result set
    last_progress,       \* find_all_orders: len(discovered) at the last report
    expansions,          \* find_all_orders: how often each order was popped
    result,              \* the SketchOrder a selection returned
    second,              \* the SketchOrder a repeated selection returned
    running_order,       \* optimize_running_order: the list it returned
    overlap_mat,         \* greedy_algo: the overlap matrix
    candidate,           \* greedy_algo / evaluate_cost: the order passed in
    best_order,          \* greedy_algo: current best order
    best_overlap,        \* greedy_algo: its adjacent overlap
    best_cost,           \* greedy_algo: its cost, or Inf
    cost,                \* the value evaluate_cost returned
    request_data,        \* app.py: the JSON body of the request
    id_to_index,         \* get_sketch_list: dict sketch id -> index
    anchored,            \* convert_request_to_sketches: dict index -> position
    next_anchor,         \* add_anchors_to_sketches: the constraint it is at
    converted,           \* the RunningOrderRequest returned, or None
    response             \* app.py: the JSON response, or None

vars == <<pc, sketches, try_to_keep_order, allowed_nexts, anchors, desired,
          stack, discovered, allowed_full_orders, last_progress, result,
          second, running_order, overlap_mat, candidate, best_order,
          best_overlap, best_cost, cost, request_data, id_to_index,
          anchored, next_anchor, converted, response, expansions>>

inputVars == <<sketches, try_to_keep_order>>
searchVars == <<stack, discovered, allowed_full_orders, last_progress,
                expansions>>
greedyVars == <<overlap_mat, candidate, best_order, best_overlap, best_cost>>
requestVars == <<request_data, id_to_index, anchored, next_anchor, converted,
                 response>>

-----------------------------------------------------------------------------
(* Bounds of the model.                                                     *)

\* find_all_orders checked on its own: relations over at most MaxItems items
MaxItems == 3
\* optimize_running_order: lists of at most MaxSketches sketches
MaxSketches == 3
\* optimize_running_order: the casts are drawn from NumPlayers players
NumPlayers == 2
\* evaluate_cost checked on its own: orders of at most MaxCostItems items
MaxCostItems == 4
\* greedy_algo: orders of at most MaxGreedyItems items
MaxGreedyItems == 4
\* greedy_algo: two sketches share at most MaxOverlap cast members
MaxOverlap == 2
\* the route /optimize: requests of at most MaxRequestSketches sketches
MaxRequestSketches == 2
\* the route /optimize: at most MaxAnchoredConstraints anchored constraints
MaxAnchoredConstraints == 3

-----------------------------------------------------------------------------
(* Values.                                                                  *)

\* Python's None for an absent desired order (no SketchOrder holds -1)
None == <<-1>>

\* float("inf"), the initial best_cost of the greedy optimizer
Inf == -1

PROGRESS_UPDATE_FREQUENCY == 10

\* no partial order has been popped from the stack yet
NoExpansions == [o \in {} |-> 0]

\* the pops counted in done, and one more of partial_order
CountExpansion(done, partial_order) ==
    [o \in (DOMAIN done) \cup {partial_order} |->
        (IF o \in DOMAIN done THEN done[o] ELSE 0)
            + (IF o = partial_order THEN 1 ELSE 0)]

\* the variables of the request handling, where no request is handled
RequestUnused ==
    /\ request_data = [sketches |-> <<>>, anchored |-> <<>>]
    /\ id_to_index = <<>>
    /\ anchored = <<>>
    /\ next_anchor = 0
    /\ converted = None
    /\ response = None

Range(s) == {s[k] : k \in 1..Len(s)}

Abs(x) == IF x < 0 THEN -x ELSE x

Max(a, b) == IF a >= b THEN a ELSE b

Min(a, b) == IF a <= b THEN a ELSE b

\* every sequence that lists the elements of the finite set S once each:
\* the orders in which an iteration over the set S may visit it
Enumerations(S) ==
    {f \in [1..Cardinality(S) -> S] : \A x \in S : \E k \in DOMAIN f : f[k] = x}

\* the permutations of range(n)
PermutationsOf(n) == Enumerations(0..(n - 1))

\* the value sum(f(k) for k in 1..n) for a function f on 1..n
RECURSIVE SumTo(_, _)
SumTo(f, n) == IF n = 0 THEN 0 ELSE f[n] + SumTo(f, n - 1)


-----------------------------------------------------------------------------
(* optimize_running_order's helpers: the relation and the anchors.          *)

Players == 1..NumPlayers

\* a Sketch: its cast and its anchored flag (the title plays no part)
Sketch == [cast : SUBSET Players, anchored : BOOLEAN]

\* get_allowable_next_sketches: a defaultdict(set) filled over the product
\* of the enumerated sketches with itself, so a key exists only for a sketch
\* that got at least one entry, and a sketch with an empty cast is allowed
\* after itself
get_allowable_next_sketches(sk) ==
    LET Allowed(ind1) ==
            {ind2 \in 0..(Len(sk) - 1) :
                sk[ind1 + 1].cast \cap sk[ind2 + 1].cast = {}}
        keys == {ind1 \in 0..(Len(sk) - 1) : Allowed(ind1) # {}}
    IN  [ind1 \in keys |-> Allowed(ind1)]

\* get_anchors: {ind: ind for ind, sketch in enumerate(sketches) if
\* sketch.anchored}
get_anchors(sk) ==
    LET keys == {ind \in 0..(Len(sk) - 1) : sk[ind + 1].anchored}
    IN  [ind \in keys |-> ind]

-----------------------------------------------------------------------------
(* SketchOrder.possible_next_states.                                        *)

\* whether possible_next_states raises KeyError: both lookups
\* allowed_nexts[last_sketch] (in the except branch and after it) are
\* unguarded; the lookups in anchors are guarded by try / except KeyError
possible_next_states_raises(order, allowed, anch) ==
    /\ order # <<>>
    /\ order[Len(order)] \notin DOMAIN allowed

\* possible_next_states with the anchored branch not consulting
\* allowed_nexts
possible_next_states_anchor_unchecked(order, allowed, num_sketches, anch) ==
    IF order = <<>>
    THEN IF 0 \in DOMAIN anch
         THEN {<<anch[0]>>}
         ELSE {<<first_sketch>> : first_sketch \in 0..(num_sketches - 1)}
    ELSE LET last_sketch == order[Len(order)]
         IN  IF Len(order) \in DOMAIN anch
             THEN LET next_sketch == anch[Len(order)]
                  IN  IF next_sketch \notin Range(order)
                      THEN {Append(order, next_sketch)}
                      ELSE {}
             ELSE {Append(order, next_sketch) :
                      next_sketch \in allowed[last_sketch] \ Range(order)}

\* possible_next_states honouring the anchor of position 0 only
possible_next_states_first_anchor_only(order, allowed, num_sketches, anch) ==
    IF order = <<>>
    THEN IF 0 \in DOMAIN anch
         THEN {<<anch[0]>>}
         ELSE {<<first_sketch>> : first_sketch \in 0..(num_sketches - 1)}
    ELSE {Append(order, next_sketch) :
             next_sketch \in allowed[order[Len(order)]] \ Range(order)}

\* possible_next_states starting from range(1, num_sketches)
possible_next_states_skip_zero(order, allowed, num_sketches, anch) ==
    IF order = <<>>
    THEN IF 0 \in DOMAIN anch
         THEN {<<anch[0]>>}
         ELSE {<<first_sketch>> : first_sketch \in 1..(num_sketches - 1)}
    ELSE LET last_sketch == order[Len(order)]
         IN  IF Len(order) \in DOMAIN anch
             THEN LET next_sketch == anch[Len(order)]
                  IN  IF /\ next_sketch \in allowed[last_sketch]
                         /\ next_sketch \notin Range(order)
                      THEN {Append(order, next_sketch)}
                      ELSE {}
             ELSE {Append(order, next_sketch) :
                      next_sketch \in allowed[last_sketch] \ Range(order)}

\* possible_next_states not consulting the anchor of position 0
possible_next_states_first_unanchored(order, allowed, num_sketches, anch) ==
    IF order = <<>>
    THEN {<<first_sketch>> : first_sketch \in 0..(num_sketches - 1)}
    ELSE LET last_sketch == order[Len(order)]
         IN  IF Len(order) \in DOMAIN anch
             THEN LET next_sketch == anch[Len(order)]
                  IN  IF /\ next_sketch \in allowed[last_sketch]
                         /\ next_sketch \notin Range(order)
                      THEN {Append(order, next_sketch)}
                      ELSE {}
             ELSE {Append(order, next_sketch) :
                      next_sketch \in allowed[last_sketch] \ Range(order)}

\* possible_next_states not removing the sketches already in the order
possible_next_states_with_repeats(order, allowed, num_sketches, anch) ==
    IF order = <<>>
    THEN IF 0 \in DOMAIN anch
         THEN {<<anch[0]>>}
         ELSE {<<first_sketch>> : first_sketch \in 0..(num_sketches - 1)}
    ELSE LET last_sketch == order[Len(order)]
         IN  IF Len(order) \in DOMAIN anch
             THEN LET next_sketch == anch[Len(order)]
                  IN  IF /\ next_sketch \in allowed[last_sketch]
                         /\ next_sketch \notin Range(order)
                      THEN {Append(order, next_sketch)}
                      ELSE {}
             ELSE {Append(order, next_sketch) :
                      next_sketch \in allowed[last_sketch]}

possible_next_states(order, allowed, num_sketches, anch) ==
    IF order = <<>>
    THEN IF 0 \in DOMAIN anch
         THEN {<<anch[0]>>}
         ELSE {<<first_sketch>> : first_sketch \in 0..(num_sketches - 1)}
    ELSE LET last_sketch == order[Len(order)]
         IN  IF Len(order) \in DOMAIN anch
             THEN LET next_sketch == anch[Len(order)]
                  IN  IF /\ next_sketch \in allowed[last_sketch]
                         /\ next_sketch \notin Range(order)
                      THEN {Append(order, next_sketch)}
                      ELSE {}
             ELSE {Append(order, next_sketch) :
                      next_sketch \in allowed[last_sketch] \ Range(order)}

-----------------------------------------------------------------------------
(* evaluate_cost and the selection.                                         *)

\* the keys of {val: ind for ind, val in enumerate(s)} in insertion order:
\* the distinct values of s in the order of their first occurrence
RECURSIVE DictKeys(_)
DictKeys(s) ==
    IF s = <<>> THEN <<>>
    ELSE LET init == DictKeys(SubSeq(s, 1, Len(s) - 1))
         IN  IF s[Len(s)] \in Range(init) THEN init
             ELSE Append(init, s[Len(s)])

\* evaluate_cost: zip pairs the KEYS of actual_spot and desired_spot, which
\* are sketch numbers, k-th with k-th; the positions (the dict values) are
\* never read
evaluate_cost(cand, des) ==
    LET actual_keys == DictKeys(cand)
        desired_keys == DictKeys(des)
        n == Min(Len(actual_keys), Len(desired_keys))
    IN  SumTo([k \in 1..n |-> Abs(actual_keys[k] - desired_keys[k])], n)

\* find_closest_to_desired taking the largest cost
find_closest_to_desired_max(orders, des) ==
    LET costs == [cand \in orders |-> evaluate_cost(cand, des)]
        max_cost == CHOOSE c \in {costs[o] : o \in orders} :
                        \A o \in orders : c >= costs[o]
    IN  {cand \in orders : costs[cand] = max_cost}

\* find_closest_to_desired without the filter on the cost
find_closest_to_desired_unfiltered(orders, des) == orders

\* find_closest_to_desired: best_orders, the set next(iter(...)) is taken of
find_closest_to_desired(orders, des) ==
    LET costs == [cand \in orders |-> evaluate_cost(cand, des)]
        min_cost == CHOOSE c \in {costs[o] : o \in orders} :
                        \A o \in orders : c <= costs[o]
    IN  {cand \in orders : costs[cand] = min_cost}

\* find_best_order returning the desired order itself when one is given
find_best_order_prefers_desired(all_orders, des) ==
    IF des = None THEN all_orders ELSE {des}

\* the orders find_best_order may return for a non-empty all_orders
find_best_order(all_orders, des) ==
    IF des = None THEN all_orders
    ELSE find_closest_to_desired(all_orders, des)

-----------------------------------------------------------------------------
(* find_all_orders, one iteration of its while loop per step.               *)

num_sketches == Cardinality(DOMAIN allowed_nexts)

progress_interval == Max(1, num_sketches \div PROGRESS_UPDATE_FREQUENCY)

\* a set-up that does not enter the empty order in discovered
SearchStart_undiscovered ==
    /\ stack = << <<>> >>
    /\ discovered = {}
    /\ allowed_full_orders = {}
    /\ last_progress = 1
    /\ expansions = NoExpansions

\* the state find_all_orders sets up before its loop
SearchStart ==
    /\ stack = << <<>> >>
    /\ discovered = { <<>> }
    /\ allowed_full_orders = {}
    /\ last_progress = 1
    /\ expansions = NoExpansions

\* one iteration that does not set the full-length candidates apart: every
\* candidate not in discovered is added to discovered and pushed
Expand_pushes_full_orders ==
    /\ pc = "search"
    /\ stack # <<>>
    /\ expansions' = CountExpansion(expansions, stack[Len(stack)])
    /\ LET popped == stack[Len(stack)]
           rest == SubSeq(stack, 1, Len(stack) - 1)
           candidates == possible_next_states(
               popped, allowed_nexts, num_sketches, anchors)
           full == {c \in candidates : Len(c) = num_sketches}
           fresh == {c \in candidates : c \notin discovered}
       IN  /\ \E pushed \in Enumerations(fresh) : stack' = rest \o pushed
           /\ discovered' = discovered \cup fresh
           /\ allowed_full_orders' = allowed_full_orders \cup full
           /\ UNCHANGED <<last_progress, pc>>
    /\ UNCHANGED <<requestVars, inputVars, allowed_nexts, anchors, desired, result, second,
                   running_order, greedyVars, cost>>

\* one iteration that reads the last order of the stack without removing it
Expand_keeps_popped ==
    /\ pc = "search"
    /\ stack # <<>>
    /\ expansions' = CountExpansion(expansions, stack[Len(stack)])
    /\ LET popped == stack[Len(stack)]
           candidates == possible_next_states(
               popped, allowed_nexts, num_sketches, anchors)
           full == {c \in candidates : Len(c) = num_sketches}
           fresh == {c \in candidates :
                        Len(c) # num_sketches /\ c \notin discovered}
       IN  /\ \E pushed \in Enumerations(fresh) : stack' = stack \o pushed
           /\ discovered' = discovered \cup fresh
           /\ allowed_full_orders' = allowed_full_orders \cup full
           /\ UNCHANGED <<last_progress, pc>>
    /\ UNCHANGED <<requestVars, inputVars, allowed_nexts, anchors, desired, result, second,
                   running_order, greedyVars, cost>>

\* one iteration: pop, expand, file each candidate.  The candidates are a
\* set, so they are pushed in any order.
Expand ==
    /\ pc = "search"
    /\ stack # <<>>
    /\ expansions' = CountExpansion(expansions, stack[Len(stack)])
    /\ LET partial_order == stack[Len(stack)]
           rest == SubSeq(stack, 1, Len(stack) - 1)
       IN  IF possible_next_states_raises(partial_order, allowed_nexts, anchors)
           THEN /\ pc' = "KeyError"
                /\ stack' = rest
                /\ UNCHANGED <<discovered, allowed_full_orders, last_progress>>
           ELSE LET candidates == possible_next_states(
                        partial_order, allowed_nexts, num_sketches, anchors)
                    full == {c \in candidates : Len(c) = num_sketches}
                    fresh == {c \in candidates :
                                 Len(c) # num_sketches /\ c \notin discovered}
                IN  /\ \E pushed \in Enumerations(fresh) :
                           stack' = rest \o pushed
                    /\ discovered' = discovered \cup fresh
                    /\ allowed_full_orders' = allowed_full_orders \cup full
                    /\ last_progress' =
                           IF Cardinality(discovered) - last_progress
                                  >= progress_interval
                           THEN Cardinality(discovered)
                           ELSE last_progress
                    /\ pc' = pc
    /\ UNCHANGED <<requestVars, inputVars, allowed_nexts, anchors, desired, result, second,
                   running_order, greedyVars, cost>>

\* the loop ends: find_all_orders returns allowed_full_orders
ReturnAllOrders ==
    /\ pc = "search"
    /\ stack = <<>>
    /\ pc' = "found"
    /\ UNCHANGED <<requestVars, inputVars, allowed_nexts, anchors, desired, searchVars,
                   result, second, running_order, greedyVars, cost>>

\* find_best_order selecting among discovered instead of all_orders
FindBestOrder_from_discovered ==
    /\ pc = "found"
    /\ IF allowed_full_orders = {}
       THEN pc' = "ValueError" /\ result' = result
       ELSE /\ result' \in find_best_order(discovered, desired)
            /\ pc' = "done"
    /\ UNCHANGED <<requestVars, inputVars, allowed_nexts, anchors, desired, searchVars,
                   second, running_order, greedyVars, cost>>

\* find_best_order after its call of find_all_orders
FindBestOrder ==
    /\ pc = "found"
    /\ IF allowed_full_orders = {}
       THEN pc' = "ValueError" /\ result' = result
       ELSE /\ result' \in find_best_order(allowed_full_orders, desired)
            /\ pc' = "done"
    /\ UNCHANGED <<requestVars, inputVars, allowed_nexts, anchors, desired, searchVars,
                   second, running_order, greedyVars, cost>>

\* the selection run once more on the same candidate set and desired order
SelectAgain ==
    /\ pc = "done"
    /\ second' \in find_best_order(allowed_full_orders, desired)
    /\ pc' = "again"
    /\ UNCHANGED <<requestVars, inputVars, allowed_nexts, anchors, desired, searchVars,
                   result, running_order, greedyVars, cost>>

-----------------------------------------------------------------------------
(* Spec: find_best_order(allowed_nexts, anchors, desired) on every relation *)
(* over N <= MaxItems items, every anchor map and every desired order.      *)

\* the dicts position -> sketch over n items
AnchorMaps(n) ==
    UNION {[P -> 0..(n - 1)] : P \in SUBSET (0..(n - 1))}

Unused ==
    /\ RequestUnused
    /\ sketches = <<>>
    /\ try_to_keep_order = FALSE
    /\ result = <<>>
    /\ second = <<>>
    /\ running_order = <<>>
    /\ overlap_mat = <<>>
    /\ candidate = <<>>
    /\ best_order = <<>>
    /\ best_overlap = 0
    /\ best_cost = Inf
    /\ cost = 0

Init ==
    /\ pc = "search"
    /\ \E n \in 0..MaxItems :
          /\ allowed_nexts \in [0..(n - 1) -> SUBSET (0..(n - 1))]
          /\ anchors \in AnchorMaps(n)
          /\ desired \in {None} \cup PermutationsOf(n)
    /\ SearchStart
    /\ Unused

Next == Expand \/ ReturnAllOrders \/ FindBestOrder \/ SelectAgain

Spec == Init /\ [][Next]_vars


-----------------------------------------------------------------------------
(* Claims about find_all_orders and the selection, checked under Spec.      *)

\* find_all_orders has returned its set
Returned == pc \in {"found", "done", "again", "ValueError"}

\* each element of o after the first is in allowed_nexts of its predecessor
FeasibilityConsistent(o) ==
    \A k \in 1..(Len(o) - 1) :
        /\ o[k] \in DOMAIN allowed_nexts
        /\ o[k + 1] \in allowed_nexts[o[k]]

\* o has anchors[p] at every anchored position p within its length
AnchorConsistent(o) ==
    \A p \in DOMAIN anchors : (0 <= p /\ p < Len(o)) => o[p + 1] = anchors[p]

\* the permutations of 0..N-1 that meet both constraints, N = len(allowed_nexts)
ConsistentPermutations ==
    {o \in PermutationsOf(num_sketches) :
        FeasibilityConsistent(o) /\ AnchorConsistent(o)}

\* C1: every order find_all_orders returns has, for every adjacent pair
\* (a, b), b in allowed_nexts[a]
C1_Feasibility ==
    Returned => \A o \in allowed_full_orders : FeasibilityConsistent(o)

C1_Witness ==
    /\ pc = "found"
    /\ num_sketches = 3
    /\ 1 \in DOMAIN anchors
    /\ \E o \in allowed_full_orders : Len(o) = 3
    /\ \E a \in DOMAIN allowed_nexts : allowed_nexts[a] = {}

\* C2: every order find_all_orders returns has item a at position p for
\* every entry p -> a of the anchor map with 0 <= p < N
C2_Anchors ==
    Returned =>
        \A o \in allowed_full_orders :
            \A p \in DOMAIN anchors :
                (0 <= p /\ p < num_sketches) =>
                    (Len(o) > p /\ o[p + 1] = anchors[p])

C2_Witness ==
    /\ pc = "found"
    /\ allowed_full_orders # {}
    /\ \E p \in DOMAIN anchors : p >= 1 /\ anchors[p] # p
    /\ \E o \in PermutationsOf(num_sketches) :
           FeasibilityConsistent(o) /\ ~AnchorConsistent(o)

C7_MinimumCost ==
    (pc = "done" /\ desired # None) =>
        \A o \in allowed_full_orders :
            evaluate_cost(result, desired) <= evaluate_cost(o, desired)

C7_Witness ==
    /\ pc = "done"
    /\ desired # None
    /\ \E o \in allowed_full_orders :
           evaluate_cost(result, desired) < evaluate_cost(o, desired)

\* whether sequence a is lexicographically at most sequence b (equal lengths)
LexLeq(a, b) ==
    \/ a = b
    \/ \E k \in 1..Len(a) :
           /\ a[k] < b[k]
           /\ \A j \in 1..(k - 1) : a[j] = b[j]

\* the candidates of minimum cost (all candidates when desired is None),
\* stated from the costs and not from find_closest_to_desired
MinimumCostCandidates ==
    IF desired = None THEN allowed_full_orders
    ELSE {o \in allowed_full_orders :
             \A q \in allowed_full_orders :
                 evaluate_cost(o, desired) <= evaluate_cost(q, desired)}

\* the chain relation {0: {1}, 1: {0, 2}, 2: {1}}, no anchors, no desired
ChainCase ==
    /\ num_sketches = 3
    /\ allowed_nexts[0] = {1}
    /\ allowed_nexts[1] = {0, 2}
    /\ allowed_nexts[2] = {1}
    /\ DOMAIN anchors = {}
    /\ desired = None

\* C8 as stated: find_best_order returns the lexicographically smallest of
\* the candidates of minimum cost
C8_Original ==
    (pc = "done") => \A o \in MinimumCostCandidates : LexLeq(result, o)

\* C8 as amended: find_best_order returns one of the candidates of minimum
\* cost (of all candidates when no desired order is given), whichever the
\* iteration of the set yields first and not necessarily the
\* lexicographically smallest; for the chain relation it returns [0,1,2] or
\* [2,1,0]
C8_SomeMinimum ==
    (pc = "done") =>
        /\ result \in MinimumCostCandidates
        /\ ChainCase => result \in {<<0, 1, 2>>, <<2, 1, 0>>}

C8_Witness ==
    /\ pc = "done"
    /\ ChainCase
    /\ result = <<2, 1, 0>>

\* C9 as stated: two runs of the selection on the same candidate set and the
\* same desired order return the identical sequence
C9_Original == (pc = "again") => second = result

\* C9 as amended: two runs of the selection on the same candidate set and
\* the same desired order both return a candidate of minimum cost, so two
\* orders of equal cost, and the identical sequence when only one candidate
\* has the minimum cost; with several, the sequence depends on the
\* iteration order of the set
C9_SameCost ==
    (pc = "again") =>
        /\ result \in MinimumCostCandidates
        /\ second \in MinimumCostCandidates
        /\ desired # None =>
               evaluate_cost(second, desired) = evaluate_cost(result, desired)
        /\ Cardinality(MinimumCostCandidates) = 1 => second = result

C9_Witness ==
    /\ pc = "again"
    /\ desired # None
    /\ second # result
    /\ Cardinality(allowed_full_orders) > Cardinality(MinimumCostCandidates)


-----------------------------------------------------------------------------
(* SpecPipeline: optimize_running_order(sketches, try_to_keep_order) on     *)
(* every list of at most MaxSketches sketches with casts among Players.     *)

\* optimize_running_order up to its call of find_best_order, and
\* find_best_order up to the loop of find_all_orders
OptimizeRunningOrder ==
    /\ pc = "optimize"
    /\ allowed_nexts' = get_allowable_next_sketches(sketches)
    /\ anchors' = get_anchors(sketches)
    /\ desired' = IF try_to_keep_order
                  THEN [k \in 1..Len(sketches) |-> k - 1]
                  ELSE None
    /\ stack' = << <<>> >>
    /\ discovered' = { <<>> }
    /\ allowed_full_orders' = {}
    /\ last_progress' = 1
    /\ expansions' = NoExpansions
    /\ pc' = "search"
    /\ UNCHANGED <<requestVars, inputVars, result, second, running_order, greedyVars, cost>>

\* return [sketches[place] for place in solution.order]
ReturnRunningOrder ==
    /\ pc = "done"
    /\ IF \A k \in 1..Len(result) : result[k] < Len(sketches)
       THEN /\ running_order' =
                   [k \in 1..Len(result) |-> sketches[result[k] + 1]]
            /\ pc' = "returned"
       ELSE /\ running_order' = running_order
            /\ pc' = "IndexError"
    /\ UNCHANGED <<requestVars, inputVars, allowed_nexts, anchors, desired, searchVars,
                   result, second, greedyVars, cost>>

InitPipeline ==
    /\ pc = "optimize"
    /\ RequestUnused
    /\ \E n \in 0..MaxSketches : sketches \in [1..n -> Sketch]
    /\ try_to_keep_order \in BOOLEAN
    /\ allowed_nexts = <<>>
    /\ anchors = <<>>
    /\ desired = None
    /\ stack = <<>>
    /\ discovered = {}
    /\ allowed_full_orders = {}
    /\ last_progress = 0
    /\ expansions = NoExpansions
    /\ result = <<>>
    /\ second = <<>>
    /\ running_order = <<>>
    /\ overlap_mat = <<>>
    /\ candidate = <<>>
    /\ best_order = <<>>
    /\ best_overlap = 0
    /\ best_cost = Inf
    /\ cost = 0

NextPipeline ==
    \/ OptimizeRunningOrder
    \/ Expand
    \/ ReturnAllOrders
    \/ FindBestOrder
    \/ ReturnRunningOrder

SpecPipeline == InitPipeline /\ [][NextPipeline]_vars

\* the number of input sketches
N == Len(sketches)

\* the permutations of the input sketches in which no two adjacent sketches
\* share a cast member and every anchored sketch keeps its input position
ValidRunningOrders ==
    {o \in PermutationsOf(N) :
        /\ \A k \in 1..(N - 1) :
               sketches[o[k] + 1].cast \cap sketches[o[k + 1] + 1].cast = {}
        /\ \A k \in 1..N : sketches[k].anchored => o[k] = k - 1}

\* C4: every order find_all_orders returns for the relation built by
\* get_allowable_next_sketches has length N and holds each index 0..N-1 once,
\* and optimize_running_order returns every input sketch exactly once
C4_FullLength ==
    /\ Returned =>
           \A o \in allowed_full_orders : o \in PermutationsOf(N)
    /\ (pc = "returned") =>
           /\ result \in PermutationsOf(N)
           /\ running_order = [k \in 1..N |-> sketches[result[k] + 1]]

\* C5: for N >= 1 sketches optimize_running_order raises the 'No valid
\* running order found' ValueError exactly when no permutation of the
\* sketches meets the adjacency rule and the anchors; it returns no order in
\* that case and fails with no other error
C5_InfeasibleIffValueError ==
    (N >= 1) =>
        /\ (pc = "ValueError") => ValidRunningOrders = {}
        /\ (pc \in {"done", "returned"}) => ValidRunningOrders # {}
        /\ pc \notin {"KeyError", "IndexError"}


-----------------------------------------------------------------------------
(* SpecCost: evaluate_cost(candidate, desired) on every pair of             *)
(* permutations of the same n <= MaxCostItems items.                        *)

EvaluateCost ==
    /\ pc = "cost"
    /\ cost' = evaluate_cost(candidate, desired)
    /\ pc' = "cost_done"
    /\ UNCHANGED <<requestVars, inputVars, allowed_nexts, anchors, desired, searchVars,
                   result, second, running_order, overlap_mat, candidate,
                   best_order, best_overlap, best_cost>>

InitCost ==
    /\ pc = "cost"
    /\ RequestUnused
    /\ \E n \in 0..MaxCostItems :
          /\ candidate \in PermutationsOf(n)
          /\ desired \in PermutationsOf(n)
    /\ sketches = <<>>
    /\ try_to_keep_order = FALSE
    /\ allowed_nexts = <<>>
    /\ anchors = <<>>
    /\ stack = <<>>
    /\ discovered = {}
    /\ allowed_full_orders = {}
    /\ last_progress = 0
    /\ expansions = NoExpansions
    /\ result = <<>>
    /\ second = <<>>
    /\ running_order = <<>>
    /\ overlap_mat = <<>>
    /\ best_order = <<>>
    /\ best_overlap = 0
    /\ best_cost = Inf
    /\ cost = 0

NextCost == EvaluateCost

SpecCost == InitCost /\ [][NextCost]_vars

\* the position (0-based) of item x in the order o
PositionOf(x, o) == (CHOOSE k \in 1..Len(o) : o[k] = x) - 1

\* the displacement summed per item: over all items, |position of the item
\* in cand - position of the item in des|
Displacement(cand, des) ==
    LET n == Len(cand)
    IN  SumTo([k \in 1..n |->
                  Abs(PositionOf(k - 1, cand) - PositionOf(k - 1, des))], n)

\* C6: for permutations of the same items, evaluate_cost(candidate, desired)
\* is the sum over all items of |position of the item in candidate -
\* position of the item in desired|
C6_CostIsDisplacement ==
    (pc = "cost_done") => cost = Displacement(candidate, desired)


-----------------------------------------------------------------------------
(* The greedy optimizer: calc_order_overlap, find_best_swap, greedy_algo.   *)

\* calc_order_overlap: the sum of overlap_mat[i, j] over the adjacent pairs
calc_order_overlap(mat, order) ==
    LET n == IF Len(order) = 0 THEN 0 ELSE Len(order) - 1
    IN  SumTo([k \in 1..n |-> mat[order[k]][order[k + 1]]], n)

\* a swap that writes position i only
SwapOrder_overwrite(order, i, j) ==
    [k \in 1..Len(order) |-> IF k = i + 1 THEN order[j + 1] ELSE order[k]]

\* the order with the elements at positions i and j (0-based) exchanged
SwapOrder(order, i, j) ==
    [k \in 1..Len(order) |->
        IF k = i + 1 THEN order[j + 1]
        ELSE IF k = j + 1 THEN order[i + 1]
        ELSE order[k]]

\* a < b for costs, where Inf is float("inf")
CostLess(a, b) == a # Inf /\ (b = Inf \/ a < b)

\* find_best_swap with the cost compared before the overlap
swap_improves_cost_first(new_overlap, new_cost, old_overlap, old_cost) ==
    \/ CostLess(new_cost, old_cost)
    \/ new_cost = old_cost /\ new_overlap < old_overlap

\* the test of find_best_swap for taking a swap as the best so far
swap_improves(new_overlap, new_cost, old_overlap, old_cost) ==
    \/ new_overlap < old_overlap
    \/ new_overlap = old_overlap /\ CostLess(new_cost, old_cost)

\* greedy_algo adopting a swap that is no worse in overlap
greedy_accepts_not_worse(new_overlap, new_cost, old_overlap, old_cost) ==
    new_overlap <= old_overlap

\* the test of greedy_algo for adopting what find_best_swap returned
greedy_accepts(new_overlap, new_cost, old_overlap, old_cost) ==
    \/ new_overlap < old_overlap
    \/ new_overlap = old_overlap /\ CostLess(new_cost, old_cost)

\* the body of the inner loop of find_best_swap for the positions i < j;
\* best is (best_order, best_overlap, best_cost).  The test
\* "desired is SketchOrder" compares with the class and is never true.
find_best_swap_body(mat, order, des, i, j, best) ==
    LET new_order == SwapOrder(order, i, j)
        new_overlap == calc_order_overlap(mat, new_order)
        new_cost == IF des = None THEN best.cost
                    ELSE evaluate_cost(new_order, des)
    IN  IF swap_improves(new_overlap, new_cost, best.overlap, best.cost)
        THEN [order |-> new_order, overlap |-> new_overlap, cost |-> new_cost]
        ELSE best

\* the inner loop of find_best_swap cut after its first pair
find_best_swap_inner_once(mat, order, des, i, j, best) ==
    IF j >= Len(order) THEN best
    ELSE find_best_swap_body(mat, order, des, i, j, best)

\* for j in range(j, len(order))
RECURSIVE find_best_swap_inner(_, _, _, _, _, _)
find_best_swap_inner(mat, order, des, i, j, best) ==
    IF j >= Len(order) THEN best
    ELSE find_best_swap_inner(mat, order, des, i, j + 1,
             find_best_swap_body(mat, order, des, i, j, best))

\* for i in range(i, len(order) - 1)
RECURSIVE find_best_swap_outer(_, _, _, _, _)
find_best_swap_outer(mat, order, des, i, best) ==
    IF i >= Len(order) - 1 THEN best
    ELSE find_best_swap_outer(mat, order, des, i + 1,
             find_best_swap_inner(mat, order, des, i, i + 1, best))

find_best_swap(mat, order, des) ==
    find_best_swap_outer(mat, order, des, 0,
        [order |-> order,
         overlap |-> calc_order_overlap(mat, order),
         cost |-> Inf])

\* one iteration that writes the adopted swap into the list of the order
\* the caller passed, as a swap in place of the aliased best_order would
GreedyStep_in_place ==
    /\ pc = "greedy"
    /\ \E new \in {find_best_swap(overlap_mat, best_order, desired)} :
           IF greedy_accepts(new.overlap, new.cost, best_overlap, best_cost)
           THEN /\ best_overlap' = new.overlap
                /\ best_order' = new.order
                /\ best_cost' = new.cost
                /\ candidate' = new.order
                /\ UNCHANGED <<pc, result>>
           ELSE /\ result' = best_order
                /\ pc' = "greedy_done"
                /\ UNCHANGED <<best_overlap, best_order, best_cost, candidate>>
    /\ UNCHANGED <<requestVars, inputVars, allowed_nexts, anchors, desired, searchVars,
                   second, running_order, overlap_mat, cost>>

\* one iteration of the loop of greedy_algo: adopt the best swap, or return
GreedyStep ==
    /\ pc = "greedy"
    /\ \E new \in {find_best_swap(overlap_mat, best_order, desired)} :
           IF greedy_accepts(new.overlap, new.cost, best_overlap, best_cost)
           THEN /\ best_overlap' = new.overlap
                /\ best_order' = new.order
                /\ best_cost' = new.cost
                /\ UNCHANGED <<pc, result>>
           ELSE /\ result' = best_order
                /\ pc' = "greedy_done"
                /\ UNCHANGED <<best_overlap, best_order, best_cost>>
    /\ UNCHANGED <<requestVars, inputVars, allowed_nexts, anchors, desired, searchVars,
                   second, running_order, overlap_mat, candidate, cost>>

-----------------------------------------------------------------------------
(* SpecGreedy: greedy_algo(overlap_mat, candidate, desired) on every        *)
(* symmetric overlap matrix over n <= MaxGreedyItems sketches with pairwise *)
(* overlaps of at most MaxOverlap, every initial order and every desired    *)
(* order.                                                                   *)

\* the symmetric matrices over n sketches: any overlap 0..MaxOverlap for
\* each pair of sketches, and on the diagonal the size of a cast that has
\* these overlaps with no player in three sketches (the diagonal is not
\* read for an order without repeats)
OverlapMatrices(n) ==
    LET pairs == {pr \in (0..(n - 1)) \X (0..(n - 1)) : pr[1] < pr[2]}
        Entry(f, i, j) == IF i < j THEN f[<<i, j>>] ELSE f[<<j, i>>]
        RECURSIVE RowSum(_, _, _)
        RowSum(f, i, j) ==
            IF j < 0 THEN 0
            ELSE (IF j = i THEN 0 ELSE Entry(f, i, j)) + RowSum(f, i, j - 1)
    IN  {[i \in 0..(n - 1) |->
            [j \in 0..(n - 1) |->
                IF i = j THEN RowSum(f, i, n - 1) ELSE Entry(f, i, j)]] :
         f \in [pairs -> 0..MaxOverlap]}

InitGreedy ==
    /\ pc = "greedy"
    /\ RequestUnused
    /\ \E n \in 0..MaxGreedyItems :
          /\ overlap_mat \in OverlapMatrices(n)
          /\ candidate \in PermutationsOf(n)
          /\ desired \in {None} \cup PermutationsOf(n)
    /\ best_overlap = calc_order_overlap(overlap_mat, candidate)
    /\ best_order = candidate
    /\ best_cost = Inf
    /\ sketches = <<>>
    /\ try_to_keep_order = FALSE
    /\ allowed_nexts = <<>>
    /\ anchors = <<>>
    /\ stack = <<>>
    /\ discovered = {}
    /\ allowed_full_orders = {}
    /\ last_progress = 0
    /\ expansions = NoExpansions
    /\ result = <<>>
    /\ second = <<>>
    /\ running_order = <<>>
    /\ cost = 0
NextGreedy == GreedyStep

SpecGreedy == InitGreedy /\ [][NextGreedy]_vars

\* the orders one pairwise swap away from the order o
SingleSwaps(o) ==
    {SwapOrder(o, i, j) : i \in 0..(Len(o) - 2), j \in 1..(Len(o) - 1)}

\* C10: the adjacent overlap of the order greedy_algo returns is at most
\* that of the initial order, and strictly lower whenever some single
\* pairwise swap of the initial order has strictly lower adjacent overlap
C10_GreedyMonotone ==
    (pc = "greedy_done") =>
        /\ calc_order_overlap(overlap_mat, result)
               <= calc_order_overlap(overlap_mat, candidate)
        /\ (\E o \in SingleSwaps(candidate) :
                calc_order_overlap(overlap_mat, o)
                    < calc_order_overlap(overlap_mat, candidate))
           => calc_order_overlap(overlap_mat, result)
                  < calc_order_overlap(overlap_mat, candidate)

C10_Witness ==
    /\ pc = "greedy_done"
    /\ desired # None
    /\ Len(candidate) = 4
    /\ \E o \in SingleSwaps(candidate) :
           calc_order_overlap(overlap_mat, o)
               < calc_order_overlap(overlap_mat, candidate)
    /\ calc_order_overlap(overlap_mat, result) > 0
    /\ result # candidate

-----------------------------------------------------------------------------
(* greedy_algo as a function of its arguments, for statements that compare  *)
(* two calls.                                                               *)

\* the while loop of greedy_algo from the state (best_order, best_overlap,
\* best_cost)
RECURSIVE greedy_algo_loop(_, _, _, _, _)
greedy_algo_loop(mat, order, overlap, cst, des) ==
    LET new == find_best_swap(mat, order, des)
    IN  IF greedy_accepts(new.overlap, new.cost, overlap, cst)
        THEN greedy_algo_loop(mat, new.order, new.overlap, new.cost, des)
        ELSE order

\* greedy_algo(overlap_mat, candidate, desired): the loop entered with
\* best_overlap = calc_order_overlap(candidate) and best_cost = float("inf")
greedy_algo(mat, cand, des) ==
    greedy_algo_loop(mat, cand, calc_order_overlap(mat, cand), Inf, des)

\* the order the run of GreedyStep returns is the value of greedy_algo
GreedyStepsComputeGreedyAlgo ==
    (pc = "greedy_done") => result = greedy_algo(overlap_mat, candidate, desired)

\* C11: greedy_algo applied with the same matrix and desired order to the
\* order it returned gives that order back
C11_Idempotent ==
    (pc = "greedy_done") => greedy_algo(overlap_mat, result, desired) = result

\* (o1, c1) below (o2, c2) in the lexicographic order on overlap, then
\* cost, with float("inf") above every number
PairLess(o1, c1, o2, c2) ==
    \/ o1 < o2
    \/ o1 = o2 /\ c1 # Inf /\ (c2 = Inf \/ c1 < c2)

-----------------------------------------------------------------------------
(* Anchors and the greedy optimizer: greedy_algo(overlap_mat, candidate,    *)
(* desired) and find_best_swap take no anchors and no option about them.    *)

\* the positions (1-based) at which two orders of one length differ
DifferingPositions(o1, o2) == {k \in 1..Len(o1) : o1[k] # o2[k]}

\* C14 as stated: whichever positions are anchored, each of them holds the
\* same item in the order greedy_algo returns as in the initial order
C14_Original ==
    (pc = "greedy_done") =>
        \A anchored_positions \in SUBSET (1..Len(candidate)) :
            \A k \in anchored_positions : result[k] = candidate[k]

\* C14: a swap greedy_algo adopts exchanges the items of exactly two
\* positions, taken among all pairs of positions, and leaves every other
\* position as it was
C14_SwapsAnyTwoPositions ==
    [][(pc = "greedy" /\ pc' = "greedy") =>
          /\ Cardinality(DifferingPositions(best_order, best_order')) = 2
          /\ Range(best_order') = Range(best_order)]_vars

\* a returned order that differs from the initial order at every position
C14_Witness ==
    /\ pc = "greedy_done"
    /\ Len(candidate) = 4
    /\ DifferingPositions(candidate, result) = 1..4

-----------------------------------------------------------------------------
(* SpecOverlap: make_sketch_overlap_matrix(sketches) on every list of at    *)
(* most MaxSketches sketches with casts among Players.                      *)

\* the players of all casts: set(itertools.chain.from_iterable(...))
AllPlayers(sk) == UNION {sk[k].cast : k \in 1..Len(sk)}

\* make_player_incidence_matrix: one row per player of all_players, one
\* column per sketch, 1 where the player is in the cast
make_player_incidence_matrix(sk, all_players) ==
    [p \in 1..Len(all_players) |->
        [k \in 1..Len(sk) |-> IF all_players[p] \in sk[k].cast THEN 1 ELSE 0]]

\* np.array(rows) of a list of equally long lists: two-dimensional, except
\* for the empty list, whose array is one-dimensional of length 0
np_array(rows) ==
    IF Len(rows) = 0 THEN [shape |-> <<0>>, at |-> <<>>]
    ELSE [shape |-> <<Len(rows), Len(rows[1])>>, at |-> rows]

\* mat.T @ mat: for a two-dimensional mat of shape (P, N) the (N, N) matrix
\* of the column products, indexed from 0; for a one-dimensional mat the
\* inner product of mat with itself, a scalar
transpose_matmul(mat) ==
    IF Len(mat.shape) = 1
    THEN [shape |-> <<>>,
          at |-> SumTo([p \in 1..mat.shape[1] |-> mat.at[p] * mat.at[p]],
                       mat.shape[1])]
    ELSE LET rows == mat.shape[1]
             cols == mat.shape[2]
         IN  [shape |-> <<cols, cols>>,
              at |-> [i \in 0..(cols - 1) |->
                        [j \in 0..(cols - 1) |->
                            SumTo([p \in 1..rows |->
                                      mat.at[p][i + 1] * mat.at[p][j + 1]],
                                  rows)]]]

\* make_sketch_overlap_matrix for the iteration order all_players of the
\* set of players
make_sketch_overlap_matrix(sk, all_players) ==
    transpose_matmul(np_array(make_player_incidence_matrix(sk, all_players)))

\* lp_running_order.get_overlap_matrix: the list of lists of
\* len(sketch1.cast.intersection(sketch2.cast))
get_overlap_matrix(sk) ==
    [i \in 0..(Len(sk) - 1) |->
        [j \in 0..(Len(sk) - 1) |->
            Cardinality(sk[i + 1].cast \cap sk[j + 1].cast)]]

MakeSketchOverlapMatrix ==
    /\ pc = "overlap"
    /\ \E all_players \in Enumerations(AllPlayers(sketches)) :
           overlap_mat' = make_sketch_overlap_matrix(sketches, all_players)
    /\ pc' = "overlap_done"
    /\ UNCHANGED <<requestVars, inputVars, allowed_nexts, anchors, desired, searchVars,
                   result, second, running_order, candidate, best_order,
                   best_overlap, best_cost, cost>>

InitOverlap ==
    /\ pc = "overlap"
    /\ RequestUnused
    /\ \E n \in 0..MaxSketches : sketches \in [1..n -> Sketch]
    /\ try_to_keep_order = FALSE
    /\ allowed_nexts = <<>>
    /\ anchors = <<>>
    /\ desired = None
    /\ stack = <<>>
    /\ discovered = {}
    /\ allowed_full_orders = {}
    /\ last_progress = 0
    /\ expansions = NoExpansions
    /\ result = <<>>
    /\ second = <<>>
    /\ running_order = <<>>
    /\ overlap_mat = <<>>
    /\ candidate = <<>>
    /\ best_order = <<>>
    /\ best_overlap = 0
    /\ best_cost = Inf
    /\ cost = 0

NextOverlap == MakeSketchOverlapMatrix

SpecOverlap == InitOverlap /\ [][NextOverlap]_vars

\* C15: for N >= 1 sketches, with casts that may be empty,
\* make_sketch_overlap_matrix returns an N x N matrix whose entry (i, j) is
\* the number of cast members sketches i and j share, so it is symmetric
\* with |cast_i| on the diagonal, and it equals get_overlap_matrix entry
\* for entry
C15_OverlapMatrix ==
    (pc = "overlap_done" /\ N >= 1) =>
        /\ overlap_mat.shape = <<N, N>>
        /\ \A i \in 0..(N - 1) : \A j \in 0..(N - 1) :
               /\ overlap_mat.at[i][j] =
                      Cardinality(sketches[i + 1].cast \cap sketches[j + 1].cast)
               /\ overlap_mat.at[i][j] = overlap_mat.at[j][i]
               /\ overlap_mat.at[i][j] = get_overlap_matrix(sketches)[i][j]
        /\ \A i \in 0..(N - 1) :
               overlap_mat.at[i][i] = Cardinality(sketches[i + 1].cast)

-----------------------------------------------------------------------------
(* The relation, the anchors and the desired order of                       *)
(* optimize_running_order, under SpecPipeline.                              *)

\* whether the casts of sketches i and j (0-based) share no member
Disjoint(i, j) == sketches[i + 1].cast \cap sketches[j + 1].cast = {}

\* C16: get_allowable_next_sketches maps each index i of the N sketches to
\* exactly the set of the indices j # i whose cast shares no member with the
\* cast of i; the relation is symmetric and holds no i in F[i]
C16_FeasibilityRelation ==
    (pc # "optimize") =>
        /\ DOMAIN allowed_nexts = 0..(N - 1)
        /\ \A i \in 0..(N - 1) :
               /\ allowed_nexts[i] =
                      {j \in 0..(N - 1) : j # i /\ Disjoint(i, j)}
               /\ i \notin allowed_nexts[i]
               /\ \A j \in allowed_nexts[i] : i \in allowed_nexts[j]

\* C17: get_anchors maps the index of every anchored sketch to that index
\* and has no other entry, and in every list optimize_running_order returns
\* each anchored sketch is at its input position
C17_AnchorsStay ==
    /\ (pc # "optimize") =>
           /\ DOMAIN anchors = {k \in 0..(N - 1) : sketches[k + 1].anchored}
           /\ \A k \in DOMAIN anchors : anchors[k] = k
    /\ (pc = "returned") =>
           \A k \in 1..N :
               sketches[k].anchored =>
                   /\ k <= Len(result)
                   /\ result[k] = k - 1
                   /\ running_order[k] = sketches[k]

\* no two adjacent sketches of the input list share a cast member
InputOrderFeasible == \A k \in 1..(N - 1) : Disjoint(k - 1, k)

\* C18: with try_to_keep_order the desired order is the input order, and
\* whenever the input order is feasible optimize_running_order returns the
\* sketches in exactly the input order
C18_KeepsInputOrder ==
    try_to_keep_order =>
        /\ (pc # "optimize") => desired = [k \in 1..N |-> k - 1]
        /\ InputOrderFeasible =>
               /\ pc \notin {"ValueError", "KeyError", "IndexError"}
               /\ (pc = "returned") =>
                      /\ result = [k \in 1..N |-> k - 1]
                      /\ running_order = sketches

-----------------------------------------------------------------------------
(* SpecRequest: the route /optimize of app.py on a request of at most       *)
(* MaxRequestSketches sketches and MaxAnchoredConstraints anchored          *)
(* constraints: convert_request_to_sketches, then                           *)
(* lp_running_order.optimize_running_order, then the response.  The titles  *)
(* and the precedence constraints are left out.                             *)

SketchIds == {"sketch1", "sketch2"}

\* the sketches of a request: each with an id and a cast
RequestSketch == [id : SketchIds, cast : SUBSET Players]

\* an anchored constraint: a sketch id, known or not, and a position
AnchoredConstraint ==
    [sketch_id : SketchIds \cup {"unknown"},
     position : (-1)..MaxRequestSketches]

\* the values of a dict
DictValues(d) == {d[k] : k \in DOMAIN d}

\* get_sketch_list raises ValueError for a sketch id seen before
DuplicateSketchId(rs) ==
    \E i \in 1..Len(rs) : \E j \in 1..Len(rs) : i < j /\ rs[i].id = rs[j].id

\* get_sketch_list, without a duplicate: id_to_index[sketch_id] = i and
\* Sketch(cast=frozenset(cast), anchored=False) for each sketch
get_sketch_list(rs) ==
    [id_to_index |->
         [id \in {rs[k].id : k \in 1..Len(rs)} |->
             (CHOOSE k \in 1..Len(rs) : rs[k].id = id) - 1],
     sketches |-> [k \in 1..Len(rs) |-> [cast |-> rs[k].cast, anchored |-> FALSE]]]

\* add_anchors_to_sketches without the test of the position against the
\* positions already in the map
anchor_error_unchecked_position(anchor, ids, n, anch) ==
    IF anchor.sketch_id \notin DOMAIN ids
    THEN "ValueError: Unknown sketch ID in anchor"
    ELSE IF anchor.position < 0 \/ anchor.position >= n
    THEN "ValueError: Invalid position in anchor"
    ELSE "none"

\* the ValueError one iteration of add_anchors_to_sketches raises for the
\* constraint anchor, given id_to_index, len(sketches) and the map so far
anchor_error(anchor, ids, n, anch) ==
    IF anchor.sketch_id \notin DOMAIN ids
    THEN "ValueError: Unknown sketch ID in anchor"
    ELSE IF anchor.position < 0 \/ anchor.position >= n
    THEN "ValueError: Invalid position in anchor"
    ELSE IF anchor.position \in DictValues(anch)
    THEN "ValueError: Multiple sketches anchored to position"
    ELSE "none"

\* id_to_index, sketches = get_sketch_list(request_data); anchored = {}
GetSketchList ==
    /\ pc = "convert"
    /\ IF DuplicateSketchId(request_data.sketches)
       THEN /\ pc' = "ValueError: Duplicate sketch ID"
            /\ UNCHANGED <<id_to_index, sketches, anchored, next_anchor>>
       ELSE /\ id_to_index' = get_sketch_list(request_data.sketches).id_to_index
            /\ sketches' = get_sketch_list(request_data.sketches).sketches
            /\ anchored' = <<>>
            /\ next_anchor' = 1
            /\ pc' = "add_anchors"
    /\ UNCHANGED <<request_data, converted, response, try_to_keep_order,
                   allowed_nexts, anchors, desired, searchVars, result,
                   second, running_order, greedyVars, cost>>

\* one iteration of the loop of add_anchors_to_sketches
AddAnchor ==
    /\ pc = "add_anchors"
    /\ next_anchor <= Len(request_data.anchored)
    /\ LET anchor == request_data.anchored[next_anchor]
           error == anchor_error(anchor, id_to_index, Len(sketches), anchored)
       IN  IF error # "none"
           THEN /\ pc' = error
                /\ UNCHANGED <<sketches, anchored, next_anchor>>
           ELSE LET sketch_index == id_to_index[anchor.sketch_id]
                IN  /\ sketches' = [sketches EXCEPT
                                       ![sketch_index + 1].anchored = TRUE]
                    /\ anchored' =
                           [k \in DOMAIN anchored \cup {sketch_index} |->
                               IF k = sketch_index THEN anchor.position
                               ELSE anchored[k]]
                    /\ next_anchor' = next_anchor + 1
                    /\ pc' = pc
    /\ UNCHANGED <<request_data, id_to_index, converted, response,
                   try_to_keep_order, allowed_nexts, anchors, desired,
                   searchVars, result, second, running_order, greedyVars,
                   cost>>

\* return RunningOrderRequest(sketches=sketches, precedence=precedence,
\* id_to_index=id_to_index): the dict anchored is not part of it
ReturnRequest ==
    /\ pc = "add_anchors"
    /\ next_anchor > Len(request_data.anchored)
    /\ converted' = [sketches |-> sketches, precedence |-> <<>>,
                     id_to_index |-> id_to_index]
    /\ pc' = "converted"
    /\ UNCHANGED <<request_data, id_to_index, anchored, next_anchor, response,
                   inputVars, allowed_nexts, anchors, desired, searchVars,
                   result, second, running_order, greedyVars, cost>>

\* lp_running_order.optimize_running_order(converted.sketches,
\* converted.precedence): get_overlap_matrix, then the call of get_anchors,
\* a name lp_running_order neither defines nor imports
LpOptimizeRunningOrder ==
    /\ pc = "converted"
    /\ overlap_mat' = get_overlap_matrix(converted.sketches)
    /\ pc' = "NameError: name 'get_anchors' is not defined"
    /\ UNCHANGED <<requestVars, inputVars, allowed_nexts, anchors, desired,
                   searchVars, result, second, running_order, candidate,
                   best_order, best_overlap, best_cost, cost>>

RequestErrors ==
    {"ValueError: Duplicate sketch ID",
     "ValueError: Unknown sketch ID in anchor",
     "ValueError: Invalid position in anchor",
     "ValueError: Multiple sketches anchored to position",
     "NameError: name 'get_anchors' is not defined"}

\* except Exception as e: return create_error_response(repr(e)), 500
ErrorResponse ==
    /\ pc \in RequestErrors
    /\ response' = [success |-> FALSE, error |-> pc, order |-> <<>>,
                    metrics |-> [cast_overlaps |-> 0]]
    /\ pc' = "responded"
    /\ UNCHANGED <<request_data, id_to_index, anchored, next_anchor,
                   converted, inputVars, allowed_nexts, anchors, desired,
                   searchVars, result, second, running_order, greedyVars,
                   cost>>

InitRequest ==
    /\ pc = "convert"
    /\ \E n \in 0..MaxRequestSketches : \E m \in 0..MaxAnchoredConstraints :
          request_data \in [sketches : [1..n -> RequestSketch],
                            anchored : [1..m -> AnchoredConstraint]]
    /\ id_to_index = <<>>
    /\ anchored = <<>>
    /\ next_anchor = 0
    /\ converted = None
    /\ response = None
    /\ sketches = <<>>
    /\ try_to_keep_order = FALSE
    /\ allowed_nexts = <<>>
    /\ anchors = <<>>
    /\ desired = None
    /\ stack = <<>>
    /\ discovered = {}
    /\ allowed_full_orders = {}
    /\ last_progress = 0
    /\ expansions = NoExpansions
    /\ result = <<>>
    /\ second = <<>>
    /\ running_order = <<>>
    /\ overlap_mat = <<>>
    /\ candidate = <<>>
    /\ best_order = <<>>
    /\ best_overlap = 0
    /\ best_cost = Inf
    /\ cost = 0

NextRequest ==
    \/ GetSketchList
    \/ AddAnchor
    \/ ReturnRequest
    \/ LpOptimizeRunningOrder
    \/ ErrorResponse

SpecRequest == InitRequest /\ [][NextRequest]_vars

\* the number of sketches in the request
RequestN == Len(request_data.sketches)

\* the index of the sketch a known sketch id names
IndexOfId(id) == (CHOOSE k \in 1..RequestN : request_data.sketches[k].id = id) - 1

\* the map from sketch index to position that the first k anchored
\* constraints describe, a later constraint for a sketch replacing an
\* earlier one
RECURSIVE AnchoredAfter(_)
AnchoredAfter(k) ==
    IF k <= 0 THEN <<>>
    ELSE LET before == AnchoredAfter(k - 1)
             anchor == request_data.anchored[k]
             index == IndexOfId(anchor.sketch_id)
         IN  [s \in DOMAIN before \cup {index} |->
                 IF s = index THEN anchor.position ELSE before[s]]

\* the anchored constraints add_anchors_to_sketches has accepted so far
AcceptedAnchors == 1..(next_anchor - 1)

\* every position of the map is within [0, N) and held by one sketch only
AnchoredMapValid ==
    /\ \A s \in DOMAIN anchored : anchored[s] \in 0..(RequestN - 1)
    /\ \A s \in DOMAIN anchored : \A t \in DOMAIN anchored :
           anchored[s] = anchored[t] => s = t

\* C19 as stated: add_anchors_to_sketches accepts no constraint that names
\* an unknown sketch id, a position outside [0, N) or a position an earlier
\* constraint already assigned, so the map it builds has all positions
\* within [0, N) and at most one sketch per position
C19_Original ==
    /\ \A k \in AcceptedAnchors :
           LET anchor == request_data.anchored[k]
           IN  /\ anchor.sketch_id \in
                      {request_data.sketches[i].id : i \in 1..RequestN}
               /\ anchor.position \in 0..(RequestN - 1)
               /\ \A m \in 1..(k - 1) :
                      request_data.anchored[m].position # anchor.position
    /\ AnchoredMapValid

\* C19: add_anchors_to_sketches accepts no constraint that names an unknown
\* sketch id, a position outside [0, N) or a position the map holds when
\* the constraint is reached, where a later constraint for a sketch has
\* replaced the earlier one; so the map it builds has all positions within
\* [0, N) and at most one sketch per position
C19_RejectsInvalidAnchors ==
    /\ \A k \in AcceptedAnchors :
           LET anchor == request_data.anchored[k]
           IN  /\ anchor.sketch_id \in
                      {request_data.sketches[i].id : i \in 1..RequestN}
               /\ anchor.position \in 0..(RequestN - 1)
               /\ anchor.position \notin DictValues(AnchoredAfter(k - 1))
    /\ (pc # "convert") => anchored = AnchoredAfter(next_anchor - 1)
    /\ AnchoredMapValid

\* two constraints accepted, one for each of two sketches, and a third
\* rejected for its position
C19_Witness ==
    /\ pc = "ValueError: Multiple sketches anchored to position"
    /\ next_anchor = 3
    /\ DOMAIN anchored = {0, 1}
    /\ anchored[0] = 1

\* C20: for a valid request the positions convert_request_to_sketches
\* recorded are part of what it hands to the optimizer, and the response is
\* a success that lists every pinned sketch at its requested position
C20_AnchorsHonoured ==
    /\ (pc = "converted" /\ DOMAIN anchored # {}) =>
           /\ "anchored" \in DOMAIN converted
           /\ converted.anchored = anchored
    /\ (pc = "responded" /\ next_anchor = Len(request_data.anchored) + 1) =>
           /\ response.success
           /\ \A s \in DOMAIN anchored :
                  response.order[anchored[s] + 1].sketch_id
                      = request_data.sketches[s + 1].id


-----------------------------------------------------------------------------
(* Claims about the steps of find_all_orders, checked under Spec.  What     *)
(* possible_next_states returned for the order popped in a step is read     *)
(* off the step: every candidate is filed in allowed_full_orders or in      *)
(* discovered, and a candidate extends the popped order by one sketch.      *)

\* the partial order the next iteration pops
partial_order == stack[Len(stack)]

\* the orders one longer than p that begin with p, among the orders filed
Filed(p, orders) ==
    {o \in orders : Len(o) = Len(p) + 1 /\ SubSeq(o, 1, Len(p)) = p}

\* C21: the iteration that pops the empty order files exactly
\* [anchors[0]] when position 0 is anchored, and otherwise exactly the N
\* singleton orders [x], x in 0..num_sketches-1
C21_EmptyOrderSuccessors ==
    [][(pc = "search" /\ stack # <<>> /\ partial_order = <<>>) =>
          Filed(<<>>, discovered' \cup allowed_full_orders') =
              IF 0 \in DOMAIN anchors
              THEN {<<anchors[0]>>}
              ELSE {<<x>> : x \in 0..(num_sketches - 1)}]_vars

C21_Witness ==
    /\ pc = "search"
    /\ num_sketches = 3
    /\ DOMAIN expansions = {<<>>}
    /\ 0 \in DOMAIN anchors
    /\ anchors[0] = 2
    /\ discovered = {<<>>, <<2>>}
    /\ stack = << <<2>> >>

\* C22: the iteration that pops a non-empty order P with last element last
\* and pos = len(P) files, if pos is anchored to a, exactly P + [a] when a
\* is in allowed_nexts[last] and not in P, and nothing otherwise; if pos is
\* not anchored, exactly the orders P + [x] with x in allowed_nexts[last]
\* and x not in P
C22_NonEmptyOrderSuccessors ==
    [][(pc = "search" /\ stack # <<>> /\ partial_order # <<>>) =>
          LET P == partial_order
              last == P[Len(P)]
              pos == Len(P)
          IN  Filed(P, discovered' \cup allowed_full_orders') =
                  IF pos \in DOMAIN anchors
                  THEN IF /\ anchors[pos] \in allowed_nexts[last]
                          /\ \A k \in 1..Len(P) : P[k] # anchors[pos]
                       THEN {P \o <<anchors[pos]>>}
                       ELSE {}
                  ELSE {P \o <<x>> :
                           x \in {y \in allowed_nexts[last] :
                                     \A k \in 1..Len(P) : P[k] # y}}]_vars

C22_Witness ==
    /\ pc = "search"
    /\ num_sketches = 3
    /\ DOMAIN anchors = {1}
    /\ \E P \in DOMAIN expansions :
           /\ Len(P) = 1
           /\ anchors[1] \in allowed_nexts[P[1]]
           /\ anchors[1] # P[1]
           /\ Cardinality(allowed_nexts[P[1]] \ {P[1]}) = 2
           /\ Filed(P, discovered) = {<<P[1], anchors[1]>>}
    /\ \E P \in DOMAIN expansions :
           /\ Len(P) = 1
           /\ anchors[1] \notin allowed_nexts[P[1]]
           /\ allowed_nexts[P[1]] \ {P[1]} # {}
    /\ \E P \in DOMAIN expansions :
           /\ Len(P) = 2
           /\ Filed(P, allowed_full_orders) # {}

-----------------------------------------------------------------------------
(* find_all_orders as a function of its two arguments, for statements that  *)
(* compare its result across calls.                                         *)

\* the while loop of find_all_orders from the state (stack, discovered,
\* allowed_full_orders), for a dict allowed with a key for every sketch;
\* the candidates are pushed in one of the orders the set may yield them
RECURSIVE find_all_orders_loop(_, _, _, _, _, _)
find_all_orders_loop(allowed, anch, n, stk, disc, full_orders) ==
    IF stk = <<>> THEN full_orders
    ELSE LET popped == stk[Len(stk)]
             rest == SubSeq(stk, 1, Len(stk) - 1)
             candidates == possible_next_states(popped, allowed, n, anch)
             full == {c \in candidates : Len(c) = n}
             fresh == {c \in candidates : Len(c) # n /\ c \notin disc}
             pushed == CHOOSE e \in Enumerations(fresh) : TRUE
         IN  find_all_orders_loop(allowed, anch, n, rest \o pushed,
                                  disc \cup fresh, full_orders \cup full)

\* find_all_orders(allowed_nexts, anchors); it has no parameter desired
find_all_orders(allowed, anch) ==
    find_all_orders_loop(allowed, anch, Cardinality(DOMAIN allowed),
                         << <<>> >>, { <<>> }, {})

\* C23: for every desired order, and for none, the order find_best_order
\* returns is a member of find_all_orders(allowed_nexts, anchors), and the
\* set the search computed under that desired order is the value of
\* find_all_orders(allowed_nexts, anchors), in which desired plays no part
C23_DesiredNeverAffectsFeasibility ==
    /\ (pc \in {"found", "done", "again", "ValueError"}) =>
           allowed_full_orders = find_all_orders(allowed_nexts, anchors)
    /\ (pc \in {"done", "again"}) =>
           result \in find_all_orders(allowed_nexts, anchors)

C23_Witness ==
    /\ pc = "done"
    /\ num_sketches = 3
    /\ desired # None
    /\ desired \notin allowed_full_orders
    /\ Cardinality(allowed_full_orders) >= 2
    /\ result \in find_all_orders(allowed_nexts, anchors)

-----------------------------------------------------------------------------
(* Further claims about greedy_algo, checked under SpecGreedy.              *)

\* the cost of an order against desired; without a desired order every
\* order costs the same
CostAgainstDesired(order) ==
    IF desired = None THEN 0 ELSE evaluate_cost(order, desired)

\* C24: on every swap greedy_algo accepts, the first one included, the pair
\* (adjacent overlap of the current order, cost of the current order
\* against desired) of the order after the swap is strictly below, in the
\* lexicographic order, the pair of the order before it
C24_LexicographicDescent ==
    [][(pc = "greedy" /\ best_order' # best_order) =>
          PairLess(calc_order_overlap(overlap_mat, best_order'),
                   CostAgainstDesired(best_order'),
                   calc_order_overlap(overlap_mat, best_order),
                   CostAgainstDesired(best_order))]_vars

\* C25: greedy_algo with a desired order returns an order with the same
\* adjacent overlap as greedy_algo without it on the same matrix and
\* initial order, and with evaluate_cost against desired no greater than
\* that of the order returned without it
C25_DesiredIsTieBreaker ==
    (pc = "greedy_done" /\ desired # None) =>
        LET without == greedy_algo(overlap_mat, candidate, None)
        IN  /\ calc_order_overlap(overlap_mat, result)
                   = calc_order_overlap(overlap_mat, without)
            /\ evaluate_cost(result, desired)
                   <= evaluate_cost(without, desired)

-----------------------------------------------------------------------------
(* Claims about the bookkeeping of find_all_orders, checked under Spec.     *)

\* the orders an iteration appended to the stack, in the order of appending
Appended ==
    SubSeq(stack', Len(stack), Len(stack'))

\* C26: in every iteration of find_all_orders, each order appended to the
\* stack has length < N, was not in discovered before and is added to it
\* in the same iteration, and nothing else is added to discovered, so that
\* no order is pushed twice; no order is popped and passed to
\* possible_next_states more than once; no complete order of length N is
\* appended to the stack
C26_NoReExpansion ==
    [][(pc = "search" /\ stack # <<>>) =>
          /\ SubSeq(stack', 1, Len(stack) - 1)
                 = SubSeq(stack, 1, Len(stack) - 1)
          /\ \A k \in 1..Len(Appended) :
                 /\ Len(Appended[k]) < num_sketches
                 /\ Appended[k] \notin discovered
                 /\ Appended[k] \in discovered'
                 /\ \A j \in 1..Len(Appended) :
                        Appended[j] = Appended[k] => j = k
                 /\ \A j \in 1..(Len(stack) - 1) : stack[j] # Appended[k]
          /\ discovered' = discovered \cup Range(Appended)
          /\ \A o \in DOMAIN expansions' : expansions'[o] <= 1]_vars

C26_Witness ==
    /\ pc = "found"
    /\ num_sketches = 3
    /\ Cardinality(allowed_full_orders) = 6
    /\ Cardinality(DOMAIN expansions) = 10
    /\ DOMAIN expansions = discovered
    /\ \A o \in DOMAIN expansions : expansions[o] = 1

-----------------------------------------------------------------------------
(* SpecAnyOrder: the loop of find_all_orders with the work list read in any *)
(* order.  The code pops the last element (stack.pop()); here an iteration  *)
(* takes any pending order, which covers last-in-first-out, first-in-       *)
(* first-out and every other discipline, and the candidates are visited in  *)
(* any order as in Expand.                                                  *)

\* an iteration that takes the pending order at index k and discards the
\* orders above it
ExpandAny_truncates ==
    /\ pc = "search"
    /\ stack # <<>>
    /\ \E k \in 1..Len(stack) :
          LET taken == stack[k]
              rest == SubSeq(stack, 1, k - 1)
          IN  /\ expansions' = CountExpansion(expansions, taken)
              /\ IF possible_next_states_raises(taken, allowed_nexts, anchors)
                 THEN /\ pc' = "KeyError"
                      /\ stack' = rest
                      /\ UNCHANGED <<discovered, allowed_full_orders,
                                     last_progress>>
                 ELSE LET candidates == possible_next_states(
                              taken, allowed_nexts, num_sketches, anchors)
                          full == {c \in candidates : Len(c) = num_sketches}
                          fresh == {c \in candidates :
                                       Len(c) # num_sketches
                                           /\ c \notin discovered}
                      IN  /\ \E pushed \in Enumerations(fresh) :
                                 stack' = rest \o pushed
                          /\ discovered' = discovered \cup fresh
                          /\ allowed_full_orders' = allowed_full_orders \cup full
                          /\ last_progress' =
                                 IF Cardinality(discovered) - last_progress
                                        >= progress_interval
                                 THEN Cardinality(discovered)
                                 ELSE last_progress
                          /\ pc' = pc
    /\ UNCHANGED <<requestVars, inputVars, allowed_nexts, anchors, desired, result, second,
                   running_order, greedyVars, cost>>

\* one iteration: take any pending order, expand, file each candidate
ExpandAny ==
    /\ pc = "search"
    /\ stack # <<>>
    /\ \E k \in 1..Len(stack) :
          LET taken == stack[k]
              rest == SubSeq(stack, 1, k - 1) \o SubSeq(stack, k + 1, Len(stack))
          IN  /\ expansions' = CountExpansion(expansions, taken)
              /\ IF possible_next_states_raises(taken, allowed_nexts, anchors)
                 THEN /\ pc' = "KeyError"
                      /\ stack' = rest
                      /\ UNCHANGED <<discovered, allowed_full_orders,
                                     last_progress>>
                 ELSE LET candidates == possible_next_states(
                              taken, allowed_nexts, num_sketches, anchors)
                          full == {c \in candidates : Len(c) = num_sketches}
                          fresh == {c \in candidates :
                                       Len(c) # num_sketches
                                           /\ c \notin discovered}
                      IN  /\ \E pushed \in Enumerations(fresh) :
                                 stack' = rest \o pushed
                          /\ discovered' = discovered \cup fresh
                          /\ allowed_full_orders' = allowed_full_orders \cup full
                          /\ last_progress' =
                                 IF Cardinality(discovered) - last_progress
                                        >= progress_interval
                                 THEN Cardinality(discovered)
                                 ELSE last_progress
                          /\ pc' = pc
    /\ UNCHANGED <<requestVars, inputVars, allowed_nexts, anchors, desired, result, second,
                   running_order, greedyVars, cost>>

InitAnyOrder ==
    /\ pc = "search"
    /\ \E n \in 0..MaxItems :
          /\ allowed_nexts \in [0..(n - 1) -> SUBSET (0..(n - 1))]
          /\ anchors \in AnchorMaps(n)
    /\ desired = None
    /\ SearchStart
    /\ Unused

NextAnyOrder == ExpandAny \/ ReturnAllOrders

SpecAnyOrder == InitAnyOrder /\ [][NextAnyOrder]_vars

\* C27: whichever pending order each iteration takes from the work list and
\* in whichever order the candidates are visited, the set returned is the
\* set find_all_orders returns as implemented (last in, first out)
C27_TraversalOrderIndependence ==
    (pc = "found") =>
        allowed_full_orders = find_all_orders(allowed_nexts, anchors)

\* two orders of length 2 with different first sketches are pending while a
\* full order is already filed: the last-in-first-out loop never holds such
\* a work list
C27_Witness ==
    /\ pc = "search"
    /\ num_sketches = 3
    /\ allowed_full_orders # {}
    /\ \E i, j \in 1..Len(stack) :
           /\ Len(stack[i]) = 2
           /\ Len(stack[j]) = 2
           /\ stack[i][1] # stack[j][1]
    /\ Len(stack[1]) = 2

-----------------------------------------------------------------------------
(* Greedy and the items of the order, checked under SpecGreedy.             *)

\* how often x occurs in the sequence o
Occurrences(x, o) == Cardinality({k \in 1..Len(o) : o[k] = x})

\* a and b have the same length and every element as often
IsPermutationOf(a, b) ==
    /\ Len(a) = Len(b)
    /\ \A x \in Range(a) \cup Range(b) : Occurrences(x, a) = Occurrences(x, b)

\* C28: every iteration of greedy_algo leaves the order the caller passed
\* as it was, and the best order after the iteration, and the order
\* returned, have the length of the initial order and each of its elements
\* as often as the initial order has it
C28_GreedyPreservesItems ==
    [][(pc = "greedy") =>
          /\ candidate' = candidate
          /\ IsPermutationOf(best_order', candidate)
          /\ (pc' = "greedy_done") => IsPermutationOf(result', candidate)]_vars

C28_Witness ==
    /\ pc = "greedy_done"
    /\ Len(candidate) = 4
    /\ desired # None
    /\ Cardinality(DifferingPositions(result, candidate)) = 3
    /\ IsPermutationOf(result, candidate)

-----------------------------------------------------------------------------
(* The state of the search, checked under Spec.                             *)

\* no sketch occurs twice in o
RepeatFree(o) == \A j, k \in 1..Len(o) : o[j] = o[k] => j = k

\* the three conditions on the content of an order
WellFormed(o) ==
    /\ RepeatFree(o)
    /\ FeasibilityConsistent(o)
    /\ AnchorConsistent(o)

\* the conditions of C29 other than the bound on the length of the pending
\* and discovered orders
SearchStateContent ==
    /\ \A k \in 1..Len(stack) : WellFormed(stack[k])
    /\ \A o \in discovered : WellFormed(o)
    /\ \A o \in allowed_full_orders : Len(o) = num_sketches /\ WellFormed(o)
    /\ Range(stack) \subseteq discovered

\* C29 as stated: at every step every order in the stack and in discovered
\* has length < N, no repeated index, each element after the first in
\* allowed_nexts of its predecessor and anchors[p] at every anchored
\* position p below its length; every order in allowed_full_orders has
\* length exactly N and meets the same three conditions; the stack is a
\* subset of discovered
C29_Original ==
    /\ \A k \in 1..Len(stack) : Len(stack[k]) < num_sketches
    /\ \A o \in discovered : Len(o) < num_sketches
    /\ SearchStateContent

\* C29 as amended: the same, with the bound on the length for N >= 1 only;
\* for N = 0 the empty order, whose length 0 is N, is in discovered from
\* the set-up on and on the stack until it is popped
C29_SearchStateInvariant ==
    /\ (num_sketches >= 1) =>
           /\ \A k \in 1..Len(stack) : Len(stack[k]) < num_sketches
           /\ \A o \in discovered : Len(o) < num_sketches
    /\ <<>> \in discovered
    /\ SearchStateContent

C29_Witness ==
    /\ pc = "search"
    /\ num_sketches = 3
    /\ DOMAIN anchors = {2}
    /\ Len(stack) >= 3
    /\ Len(stack[Len(stack)]) = 2
    /\ allowed_full_orders # {}
    /\ \E o \in PermutationsOf(3) :
           FeasibilityConsistent(o) /\ ~AnchorConsistent(o)

-----------------------------------------------------------------------------
(* Termination of the search, checked under Spec.                           *)

\* the repeat-free sequences of length < n over the items 0..n-1
RepeatFreeBelow(n) ==
    UNION {{o \in [1..k -> 0..(n - 1)] : RepeatFree(o)} : k \in 0..(n - 1)}

\* the number of expansions counted in done
RECURSIVE SumCounts(_, _)
SumCounts(done, orders) ==
    IF orders = {} THEN 0
    ELSE LET o == CHOOSE x \in orders : TRUE
         IN  done[o] + SumCounts(done, orders \ {o})

ExpansionsDone(done) == SumCounts(done, DOMAIN done)

\* the work left: the repeat-free sequences not yet discovered, and the
\* orders pending
WorkLeft(stk, disc) ==
    Cardinality(RepeatFreeBelow(num_sketches) \ disc) + Len(stk)

\* an iteration of the loop with a pending order lowers WorkLeft, which is
\* never negative, and stays in the loop; with an empty work list the
\* function returns; the expansions made never exceed bound
SearchStep(bound) ==
    (pc = "search") =>
        /\ IF stack = <<>>
           THEN pc' = "found"
           ELSE /\ pc' = "search"
                /\ WorkLeft(stack', discovered') < WorkLeft(stack, discovered)
                /\ WorkLeft(stack', discovered') >= 0
        /\ ExpansionsDone(expansions') <= bound

=============================================================================
